---- MODULE Spec2Model ----
(***************************************************************************)
(* Model of pysph/sph/basic_equations.py: the seven SPH equations and the  *)
(* three-stage evaluation protocol (initialize, loop, post_loop) through   *)
(* which an external engine calls them on particle arrays.                 *)
(*                                                                         *)
(* Field values are Python floats in the source.  They are modelled as     *)
(* exact rationals <<n, d>> in lowest terms: +, -, *, / and < are the      *)
(* exact operations, a division by zero raises (ZeroDivisionError) and     *)
(* leaves the statements already executed in effect.  Rounding, overflow   *)
(* and non-finite values of IEEE doubles are not modelled.                 *)
(***************************************************************************)
EXTENDS Integers, Sequences, FiniteSets, TLC

VARIABLES
    eqs,     \* the constructed equation instances, <<e1>> or <<e1, e2>>
    pa,      \* the particle arrays: array name -> field name -> index -> value
    prev,    \* the particle arrays as they were before the last call
    log,     \* the calls made so far, oldest first
    engine   \* the calling engine's own state (which calls it may make next)

vars == <<eqs, pa, prev, log, engine>>

(***************************************************************************)
(* Bounds of the model.                                                    *)
(***************************************************************************)
NP == 2          \* particles per array
MaxCalls == 2    \* calls in a run of the single-call specifications
MaxVisits == 3   \* neighbour visits for one destination particle
NNbr == 2        \* neighbours of the destination in the composed pass

Idx == 0 .. (NP - 1)
ArrayNames == {"fluid", "solid"}

(***************************************************************************)
(* Float arithmetic, as exact rationals.                                   *)
(***************************************************************************)
Abs(n) == IF n < 0 THEN -n ELSE n

RECURSIVE GCD(_, _)
GCD(a, b) == IF b = 0 THEN a ELSE GCD(b, a % b)

Norm(n, d) ==
    LET g == GCD(Abs(n), Abs(d))
        s == IF d < 0 THEN -1 ELSE 1
    IN  <<(s * n) \div g, (s * d) \div g>>

Q(n) == <<n, 1>>
Zero == <<0, 1>>
Half == <<1, 2>>
RAdd(x, y) == Norm(x[1] * y[2] + y[1] * x[2], x[2] * y[2])
RNeg(x) == <<-x[1], x[2]>>
RSub(x, y) == RAdd(x, RNeg(y))
RMul(x, y) == Norm(x[1] * y[1], x[2] * y[2])
RDiv(x, y) == Norm(x[1] * y[2], x[2] * y[1])
RLt(x, y) == x[1] * y[2] < y[1] * x[2]

\* A 3-vector indexed 0..2 as in the source (VIJ[0], VIJ[1], VIJ[2]).
Vec(a, b, c) == (0 :> a) @@ (1 :> b) @@ (2 :> c)
VecI(a, b, c) == Vec(Q(a), Q(b), Q(c))
VNeg(v) == [k \in 0 .. 2 |-> RNeg(v[k])]

(***************************************************************************)
(* Particle arrays: d_<f>[d_idx] is pa[e.dest][f][d_idx] and s_<f>[s_idx]  *)
(* is pa[e.source][f][s_idx]; the two are the same storage when            *)
(* e.dest = e.source.                                                      *)
(***************************************************************************)
Get(p, a, f, i) == p[a][f][i]
Set(p, a, f, i, v) == [p EXCEPT ![a][f][i] = v]
Inc(p, a, f, i, v) == Set(p, a, f, i, RAdd(Get(p, a, f, i), v))

Const(v) == [k \in Idx |-> v]
Ramp(a, b) == [k \in Idx |-> Q(a + b * k)]

\* Equation.__init__(dest, source, symmetric) of the base class.
Equation(cls, dest, source, symmetric) ==
    [cls |-> cls, dest |-> dest, source |-> source, symmetric |-> symmetric]

Last(s) == s[Len(s)]
NoRaise(p) == [pa |-> p, raised |-> FALSE]
Raise(p) == [pa |-> p, raised |-> TRUE]

\* One call by the engine: the arrays become newpa, the call is logged.
Step(c, newpa) ==
    /\ pa' = newpa
    /\ prev' = pa
    /\ log' = Append(log, c)
    /\ UNCHANGED eqs

\* Position of the last initialize call in a log, 0 when there is none.
RECURSIVE LastInit(_, _)
LastInit(l, n) ==
    IF n = 0 THEN 0
    ELSE IF l[n].stage = "initialize" THEN n ELSE LastInit(l, n - 1)

\* The loop calls of a log after its last initialize call.
LoopsSinceInit(l) == SubSeq(l, LastInit(l, Len(l)) + 1, Len(l))

(***************************************************************************)
(* SummationDensity                                                        *)
(***************************************************************************)
SummationDensity(dest, source) ==
    Equation("SummationDensity", dest, source, FALSE)

SummationDensity_initialize_noreset(p, e, d_idx) == p

SummationDensity_initialize(p, e, d_idx) ==
    Set(p, e.dest, "rho", d_idx, Zero)

SummationDensity_loop(p, e, d_idx, s_idx, WIJ) ==
    Inc(p, e.dest, "rho", d_idx, RMul(Get(p, e.source, "m", s_idx), WIJ))

\* Kernel values the kernel collaborator may supply.
KernelValues == {Half, Q(2)}

InitSD ==
    /\ \E src \in ArrayNames : eqs = <<SummationDensity("fluid", src)>>
    /\ \E r \in {Const(Q(7)), Ramp(0, 3)}, m \in {Ramp(1, 1), Ramp(-1, 3)} :
          pa = [a \in ArrayNames |-> [rho |-> r, m |-> m]]
    /\ prev = pa
    /\ log = <<>>
    /\ \E i \in Idx : engine = [mode |-> "single", d_idx |-> i,
                                budget |-> MaxVisits + 1]

SD_Initialize ==
    /\ Len(log) < engine.budget
    /\ Step([eq |-> 1, stage |-> "initialize", d_idx |-> engine.d_idx],
            SummationDensity_initialize(pa, eqs[1], engine.d_idx))
    /\ UNCHANGED engine

SD_Loop ==
    /\ Len(log) < engine.budget
    /\ \E j \in Idx, W \in KernelValues :
          Step([eq |-> 1, stage |-> "loop", d_idx |-> engine.d_idx,
                s_idx |-> j, WIJ |-> W],
               SummationDensity_loop(pa, eqs[1], engine.d_idx, j, W))
    /\ UNCHANGED engine

NextSD == SD_Initialize \/ SD_Loop

SpecSD == InitSD /\ [][NextSD]_vars

\* The sum over the visits v of s_m[v.s_idx] * v.WIJ.
RECURSIVE MassKernelSum(_, _, _)
MassKernelSum(p, e, visits) ==
    IF visits = <<>> THEN Zero
    ELSE RAdd(MassKernelSum(p, e, SubSeq(visits, 1, Len(visits) - 1)),
              RMul(Get(p, e.source, "m", Last(visits).s_idx),
                   Last(visits).WIJ))

\* C1: after initialize(i) and then one loop(i, j_k) per neighbour visit,
\* d_rho[i] is the sum over the visits of s_m[j_k] * WIJ_k, whatever d_rho[i]
\* was before; with no visit it is 0.
C1_DensityIsMassKernelSum ==
    LastInit(log, Len(log)) > 0 =>
        Get(pa, eqs[1].dest, "rho", engine.d_idx)
            = MassKernelSum(pa, eqs[1], LoopsSinceInit(log))

\* A loop before initialize, then initialize and two visits with a non-zero sum.
C1_Witness ==
    /\ Len(log) = 4
    /\ log[1].stage = "loop"
    /\ LastInit(log, Len(log)) = 2
    /\ log[3].s_idx # log[4].s_idx
    /\ log[3].WIJ = Half
    /\ log[4].WIJ = Q(2)
    /\ Get(pa, eqs[1].dest, "rho", engine.d_idx) # Zero

(***************************************************************************)
(* BodyForce                                                               *)
(***************************************************************************)
BodyForce(dest, source, fx, fy, fz, symmetric) ==
    Equation("BodyForce", dest, source, symmetric)
        @@ [fx |-> fx, fy |-> fy, fz |-> fz]

BodyForce_initialize(p, e, d_idx) ==
    LET p1 == Set(p, e.dest, "au", d_idx, Zero)
        p2 == Set(p1, e.dest, "av", d_idx, Zero)
    IN  Set(p2, e.dest, "aw", d_idx, Zero)

BodyForce_loop_assign(p, e, d_idx) ==
    LET p1 == Set(p, e.dest, "au", d_idx, e.fx)
        p2 == Set(p1, e.dest, "av", d_idx, e.fy)
    IN  Set(p2, e.dest, "aw", d_idx, e.fz)

BodyForce_loop(p, e, d_idx) ==
    LET p1 == Inc(p, e.dest, "au", d_idx, e.fx)
        p2 == Inc(p1, e.dest, "av", d_idx, e.fy)
    IN  Inc(p2, e.dest, "aw", d_idx, e.fz)

\* Force components the equation may be constructed with.
Forces == {<<Zero, Zero, Q(-10)>>, <<Q(1), Half, Q(3)>>, <<Q(-2), Q(5), Zero>>}

InitBF ==
    /\ \E f \in Forces, src \in ArrayNames :
          eqs = <<BodyForce("fluid", src, f[1], f[2], f[3], FALSE)>>
    /\ \E a \in {Const(Q(7)), Ramp(0, 3)} :
          pa = [x \in ArrayNames |-> [au |-> a, av |-> a, aw |-> Const(Q(-1))]]
    /\ prev = pa
    /\ log = <<>>
    /\ \E i \in Idx : engine = [mode |-> "single", d_idx |-> i,
                                budget |-> MaxVisits + 1]

BF_Initialize ==
    /\ Len(log) < engine.budget
    /\ Step([eq |-> 1, stage |-> "initialize", d_idx |-> engine.d_idx],
            BodyForce_initialize(pa, eqs[1], engine.d_idx))
    /\ UNCHANGED engine

\* The engine calls loop once per neighbour j; loop itself takes no s_idx.
BF_Loop ==
    /\ Len(log) < engine.budget
    /\ \E j \in Idx :
          Step([eq |-> 1, stage |-> "loop", d_idx |-> engine.d_idx, s_idx |-> j],
               BodyForce_loop(pa, eqs[1], engine.d_idx))
    /\ UNCHANGED engine

NextBF == BF_Initialize \/ BF_Loop

SpecBF == InitBF /\ [][NextBF]_vars

Acc3(p, a, i) == <<Get(p, a, "au", i), Get(p, a, "av", i), Get(p, a, "aw", i)>>

IsothermalEOS(dest, source, rho0, c0, symmetric) ==
    Equation("IsothermalEOS", dest, source, symmetric)
        @@ [rho0 |-> rho0, c0 |-> c0, c02 |-> RMul(c0, c0)]

IsothermalEOS_loop_accumulate(p, e, d_idx) ==
    Inc(p, e.dest, "p", d_idx,
        RMul(e.c02, RSub(Get(p, e.dest, "rho", d_idx), e.rho0)))

IsothermalEOS_loop(p, e, d_idx) ==
    Set(p, e.dest, "p", d_idx,
        RMul(e.c02, RSub(Get(p, e.dest, "rho", d_idx), e.rho0)))

InitEOS ==
    /\ \E rho0 \in {Q(1), Q(1000)}, c0 \in {Q(1), Q(3), Half} :
          eqs = <<IsothermalEOS("fluid", "fluid", rho0, c0, FALSE)>>
    /\ \E r \in {Const(Q(1000)), Ramp(1, 999), Ramp(998, 4)},
          q \in {Const(Zero), Ramp(5, 1)} :
          pa = [x \in ArrayNames |-> [rho |-> r, p |-> q]]
    /\ prev = pa
    /\ log = <<>>
    /\ \E i \in Idx : engine = [mode |-> "single", d_idx |-> i,
                                budget |-> MaxVisits + 1]

\* The engine calls loop once per neighbour j; loop itself takes no s_idx.
EOS_Loop ==
    /\ Len(log) < engine.budget
    /\ \E j \in Idx :
          Step([eq |-> 1, stage |-> "loop", d_idx |-> engine.d_idx, s_idx |-> j],
               IsothermalEOS_loop(pa, eqs[1], engine.d_idx))
    /\ UNCHANGED engine

NextEOS == EOS_Loop

SpecEOS == InitEOS /\ [][NextEOS]_vars

FreeEngine == [mode |-> "free", budget |-> MaxCalls]

\* Destination i and source j are two particles, not one particle twice.
Distinct(e, i, j) == e.dest # e.source \/ i # j

Dot(a, b) == RAdd(RAdd(RMul(a[0], b[0]), RMul(a[1], b[1])), RMul(a[2], b[2]))

(***************************************************************************)
(* VelocityGradient2D                                                      *)
(***************************************************************************)
VelocityGradient2D(dest, source) ==
    Equation("VelocityGradient2D", dest, source, FALSE)

VelocityGradient2D_initialize(p, e, d_idx) ==
    LET p1 == Set(p, e.dest, "v00", d_idx, Zero)
        p2 == Set(p1, e.dest, "v01", d_idx, Zero)
        p3 == Set(p2, e.dest, "v10", d_idx, Zero)
    IN  Set(p3, e.dest, "v11", d_idx, Zero)

VelocityGradient2D_loop_index2(p, e, d_idx, s_idx, DWIJ, VIJ) ==
    IF Get(p, e.source, "rho", s_idx) = Zero THEN Raise(p)
    ELSE
    LET tmp == RDiv(Get(p, e.source, "m", s_idx), Get(p, e.source, "rho", s_idx))
        p1 == Inc(p, e.dest, "v00", d_idx, RMul(RMul(tmp, RNeg(VIJ[0])), DWIJ[0]))
        p2 == Inc(p1, e.dest, "v01", d_idx, RMul(RMul(tmp, RNeg(VIJ[0])), DWIJ[1]))
        p3 == Inc(p2, e.dest, "v10", d_idx, RMul(RMul(tmp, RNeg(VIJ[1])), DWIJ[0]))
    IN  NoRaise(Inc(p3, e.dest, "v11", d_idx,
                    RMul(RMul(tmp, RNeg(VIJ[1])), DWIJ[2])))

VelocityGradient2D_loop(p, e, d_idx, s_idx, DWIJ, VIJ) ==
    IF Get(p, e.source, "rho", s_idx) = Zero THEN Raise(p)
    ELSE
    LET tmp == RDiv(Get(p, e.source, "m", s_idx), Get(p, e.source, "rho", s_idx))
        p1 == Inc(p, e.dest, "v00", d_idx, RMul(RMul(tmp, RNeg(VIJ[0])), DWIJ[0]))
        p2 == Inc(p1, e.dest, "v01", d_idx, RMul(RMul(tmp, RNeg(VIJ[0])), DWIJ[1]))
        p3 == Inc(p2, e.dest, "v10", d_idx, RMul(RMul(tmp, RNeg(VIJ[1])), DWIJ[0]))
    IN  NoRaise(Inc(p3, e.dest, "v11", d_idx,
                    RMul(RMul(tmp, RNeg(VIJ[1])), DWIJ[1])))

\* Pair geometry the collaborators may supply to VelocityGradient2D.
GeometryVG ==
    { [DWIJ |-> VecI(2, 1, 0), VIJ |-> VecI(1, -2, 0)],
      [DWIJ |-> VecI(-1, 3, -5), VIJ |-> VecI(3, 1, 4)],
      [DWIJ |-> VecI(2, 1, 6), VIJ |-> VecI(0, 1, 4)] }
\* Other values a third component may take.
ThirdComponents == {Zero, Q(7), Half}

InitVG ==
    /\ \E src \in ArrayNames : eqs = <<VelocityGradient2D("fluid", src)>>
    /\ \E r \in {Ramp(1, 1), Ramp(0, 2)} :
          pa = [a \in ArrayNames |->
                   [m |-> Ramp(1, 2), rho |-> r, v00 |-> Const(Zero),
                    v01 |-> Ramp(5, 1), v10 |-> Ramp(5, 1),
                    v11 |-> Const(Q(-3))]]
    /\ prev = pa
    /\ log = <<>>
    /\ engine = FreeEngine

VG_Initialize ==
    /\ Len(log) < engine.budget
    /\ \E i \in Idx :
          Step([eq |-> 1, stage |-> "initialize", d_idx |-> i],
               VelocityGradient2D_initialize(pa, eqs[1], i))
    /\ UNCHANGED engine

VG_Loop ==
    /\ Len(log) < engine.budget
    /\ \E i \in Idx, j \in Idx, g \in GeometryVG :
          LET r == VelocityGradient2D_loop(pa, eqs[1], i, j, g.DWIJ, g.VIJ)
          IN  Step([eq |-> 1, stage |-> "loop", d_idx |-> i, s_idx |-> j,
                    DWIJ |-> g.DWIJ, VIJ |-> g.VIJ, raised |-> r.raised],
                   r.pa)
    /\ UNCHANGED engine

NextVG == VG_Initialize \/ VG_Loop

SpecVG == InitVG /\ [][NextVG]_vars

TensorFields == {"v00", "v01", "v10", "v11"}

\* C9: a loop call made with any other third component of VIJ and of DWIJ,
\* from the same state and with the same other arguments, ends the same way
\* and leaves the same d_v00, d_v01, d_v10, d_v11.
C9_ThirdComponentIgnored ==
    (log # <<>> /\ Last(log).stage = "loop") =>
        LET c == Last(log)
            e == eqs[c.eq]
        IN  \A z1 \in ThirdComponents, z2 \in ThirdComponents :
                LET alt == VelocityGradient2D_loop(prev, e, c.d_idx, c.s_idx,
                               [c.DWIJ EXCEPT ![2] = z1],
                               [c.VIJ EXCEPT ![2] = z2])
                IN  /\ alt.raised = c.raised
                    /\ \A f \in TensorFields :
                           alt.pa[e.dest][f] = pa[e.dest][f]

\* A loop call whose VIJ[2] and DWIJ[2] are not 0 and that changed the tensor.
C9_Witness ==
    /\ log # <<>>
    /\ Last(log).stage = "loop"
    /\ ~Last(log).raised
    /\ Last(log).VIJ[2] # Zero
    /\ Last(log).DWIJ[2] # Zero
    /\ \A f \in TensorFields :
           Get(pa, "fluid", f, Last(log).d_idx)
               # Get(prev, "fluid", f, Last(log).d_idx)

(***************************************************************************)
(* ContinuityEquation                                                      *)
(***************************************************************************)
ContinuityEquation(dest, source, symmetric) ==
    Equation("ContinuityEquation", dest, source, symmetric)

ContinuityEquation_initialize(p, e, d_idx) ==
    Set(p, e.dest, "arho", d_idx, Zero)

ContinuityEquation_loop_noreaction(p, e, d_idx, s_idx, DWIJ, VIJ) ==
    LET vijdotdwij == Dot(DWIJ, VIJ)
    IN  Inc(p, e.dest, "arho", d_idx,
            RMul(Get(p, e.source, "m", s_idx), vijdotdwij))

ContinuityEquation_loop(p, e, d_idx, s_idx, DWIJ, VIJ) ==
    LET vijdotdwij == Dot(DWIJ, VIJ)
        p1 == Inc(p, e.dest, "arho", d_idx,
                  RMul(Get(p, e.source, "m", s_idx), vijdotdwij))
    IN  IF e.symmetric
        THEN Inc(p1, e.source, "arho", s_idx,
                 RMul(RNeg(Get(p1, e.dest, "m", d_idx)), vijdotdwij))
        ELSE p1

\* Pair geometry the collaborators may supply to ContinuityEquation.
GeometryCE ==
    { [DWIJ |-> VecI(2, 1, 0), VIJ |-> VecI(1, -2, 1)],
      [DWIJ |-> VecI(-1, 0, 4), VIJ |-> VecI(0, 3, 1)],
      [DWIJ |-> VecI(2, 1, 0), VIJ |-> VecI(0, 3, 0)] }

InitCE ==
    /\ \E src \in ArrayNames, sym \in BOOLEAN :
          eqs = <<ContinuityEquation("fluid", src, sym)>>
    /\ \E m \in {Const(Q(2)), Ramp(1, 1)}, a \in {Const(Zero), Ramp(0, 4)} :
          pa = [x \in ArrayNames |-> [m |-> m, arho |-> a]]
    /\ prev = pa
    /\ log = <<>>
    /\ engine = FreeEngine

CE_Initialize ==
    /\ Len(log) < engine.budget
    /\ \E i \in Idx :
          Step([eq |-> 1, stage |-> "initialize", d_idx |-> i],
               ContinuityEquation_initialize(pa, eqs[1], i))
    /\ UNCHANGED engine

CE_Loop ==
    /\ Len(log) < engine.budget
    /\ \E i \in Idx, j \in Idx, g \in GeometryCE :
          Step([eq |-> 1, stage |-> "loop", d_idx |-> i, s_idx |-> j,
                DWIJ |-> g.DWIJ, VIJ |-> g.VIJ],
               ContinuityEquation_loop(pa, eqs[1], i, j, g.DWIJ, g.VIJ))
    /\ UNCHANGED engine

NextCE == CE_Initialize \/ CE_Loop

SpecCE == InitCE /\ [][NextCE]_vars

\* The case of C2: a symmetric loop call on two particles of equal mass whose
\* d_arho[i] and s_arho[j] were both 0.
C2_Case ==
    /\ log # <<>>
    /\ Last(log).stage = "loop"
    /\ eqs[1].symmetric
    /\ Distinct(eqs[1], Last(log).d_idx, Last(log).s_idx)
    /\ Get(prev, eqs[1].dest, "m", Last(log).d_idx)
           = Get(prev, eqs[1].source, "m", Last(log).s_idx)
    /\ Get(prev, eqs[1].dest, "arho", Last(log).d_idx) = Zero
    /\ Get(prev, eqs[1].source, "arho", Last(log).s_idx) = Zero

MonaghanArtificialViscosity(dest, source, alpha, beta, eta, symmetric) ==
    Equation("MonaghanArtificialViscosity", dest, source, symmetric)
        @@ [alpha |-> alpha, beta |-> beta, eta |-> eta]

MonaghanArtificialViscosity_initialize(p, e, d_idx) ==
    LET p1 == Set(p, e.dest, "au", d_idx, Zero)
        p2 == Set(p1, e.dest, "av", d_idx, Zero)
    IN  Set(p2, e.dest, "aw", d_idx, Zero)

\* muij's divisor, R2IJ + eta*eta*HIJ*HIJ.
MuijDivisor(e, g) ==
    RAdd(g.R2IJ, RMul(RMul(RMul(e.eta, e.eta), g.HIJ), g.HIJ))

\* The value of piij when the branch computing it is taken.
PiijApproaching(p, e, d_idx, s_idx, g) ==
    LET vijdotxij == Dot(g.VIJ, g.XIJ)
        cij == RMul(Half, RAdd(Get(p, e.dest, "cs", d_idx),
                               Get(p, e.source, "cs", s_idx)))
        muij == RDiv(RMul(g.HIJ, vijdotxij), MuijDivisor(e, g))
        piij == RAdd(RMul(RMul(RNeg(e.alpha), cij), muij),
                     RMul(RMul(e.beta, muij), muij))
    IN  RMul(piij, g.RHOIJ1)

MonaghanArtificialViscosity_piij_noswitch(p, e, d_idx, s_idx, g) ==
    IF \/ Get(p, e.dest, "rho", d_idx) = Zero
       \/ Get(p, e.source, "rho", s_idx) = Zero
       \/ MuijDivisor(e, g) = Zero
    THEN [raised |-> TRUE, piij |-> Zero]
    ELSE [raised |-> FALSE, piij |-> PiijApproaching(p, e, d_idx, s_idx, g)]

\* rhoi21 and rhoj21 (computed, never used), vijdotxij, then piij; piij is
\* the local's value when the statements do not raise.
MonaghanArtificialViscosity_piij(p, e, d_idx, s_idx, g) ==
    IF \/ Get(p, e.dest, "rho", d_idx) = Zero
       \/ Get(p, e.source, "rho", s_idx) = Zero
    THEN [raised |-> TRUE, piij |-> Zero]
    ELSE IF RLt(Dot(g.VIJ, g.XIJ), Zero)
         THEN IF MuijDivisor(e, g) = Zero
              THEN [raised |-> TRUE, piij |-> Zero]
              ELSE [raised |-> FALSE,
                    piij |-> PiijApproaching(p, e, d_idx, s_idx, g)]
         ELSE [raised |-> FALSE, piij |-> Zero]

MonaghanArtificialViscosity_loop_assign(p, e, d_idx, s_idx, g) ==
    LET r == MonaghanArtificialViscosity_piij(p, e, d_idx, s_idx, g)
        f == RMul(RNeg(Get(p, e.source, "m", s_idx)), r.piij)
        p1 == Set(p, e.dest, "au", d_idx, RMul(f, g.DWIJ[0]))
        p2 == Set(p1, e.dest, "av", d_idx, RMul(f, g.DWIJ[1]))
    IN  IF r.raised THEN Raise(p)
        ELSE NoRaise(Set(p2, e.dest, "aw", d_idx, RMul(f, g.DWIJ[2])))

MonaghanArtificialViscosity_loop(p, e, d_idx, s_idx, g) ==
    LET r == MonaghanArtificialViscosity_piij(p, e, d_idx, s_idx, g)
        f == RMul(RNeg(Get(p, e.source, "m", s_idx)), r.piij)
        p1 == Inc(p, e.dest, "au", d_idx, RMul(f, g.DWIJ[0]))
        p2 == Inc(p1, e.dest, "av", d_idx, RMul(f, g.DWIJ[1]))
    IN  IF r.raised THEN Raise(p)
        ELSE NoRaise(Inc(p2, e.dest, "aw", d_idx, RMul(f, g.DWIJ[2])))

\* Pair geometry the collaborators may supply to MonaghanArtificialViscosity:
\* an approaching pair, an approaching pair at distance 0, a separating pair
\* and a pair with VIJ.XIJ exactly 0.
GeometryMAV ==
    { [VIJ |-> VecI(-1, 0, 2), XIJ |-> VecI(1, 1, 0), HIJ |-> Q(10),
       R2IJ |-> Q(4), RHOIJ1 |-> Half, DWIJ |-> VecI(1, -1, 2)],
      [VIJ |-> VecI(0, -1, 0), XIJ |-> VecI(0, 1, 0), HIJ |-> Q(10),
       R2IJ |-> Zero, RHOIJ1 |-> Q(1), DWIJ |-> VecI(0, 2, 1)],
      [VIJ |-> VecI(2, 1, 0), XIJ |-> VecI(1, 0, 3), HIJ |-> Q(10),
       R2IJ |-> Q(10), RHOIJ1 |-> Half, DWIJ |-> VecI(3, 1, -1)],
      [VIJ |-> VecI(1, -1, 0), XIJ |-> VecI(2, 2, 5), HIJ |-> Q(10),
       R2IJ |-> Q(33), RHOIJ1 |-> Q(1), DWIJ |-> VecI(1, 2, 3)] }

\* alpha, beta, eta the equation may be constructed with (eta defaults to 0.1).
ViscosityParameters ==
    { <<Q(1), Q(1), <<1, 10>> >>, <<Q(2), Zero, Zero>>,
      <<Zero, Q(3), <<1, 5>> >> }

InitMAV ==
    /\ \E src \in ArrayNames, c \in ViscosityParameters :
          eqs = <<MonaghanArtificialViscosity("fluid", src, c[1], c[2], c[3],
                                              FALSE)>>
    /\ \E r \in {Ramp(0, 1)} :
          pa = [x \in ArrayNames |->
                   [m |-> Ramp(1, 2), rho |-> r, cs |-> Ramp(2, 1),
                    au |-> Const(Q(7)), av |-> Ramp(0, 3), aw |-> Const(Zero)]]
    /\ prev = pa
    /\ log = <<>>
    /\ engine = FreeEngine

MAV_Initialize ==
    /\ Len(log) < engine.budget
    /\ \E i \in Idx :
          Step([eq |-> 1, stage |-> "initialize", d_idx |-> i],
               MonaghanArtificialViscosity_initialize(pa, eqs[1], i))
    /\ UNCHANGED engine

MAV_Loop ==
    /\ Len(log) < engine.budget
    /\ \E i \in Idx, j \in Idx, g \in GeometryMAV :
          LET r == MonaghanArtificialViscosity_loop(pa, eqs[1], i, j, g)
          IN  Step([eq |-> 1, stage |-> "loop", d_idx |-> i, s_idx |-> j,
                    g |-> g, raised |-> r.raised], r.pa)
    /\ UNCHANGED engine

NextMAV == MAV_Initialize \/ MAV_Loop

SpecMAV == InitMAV /\ [][NextMAV]_vars

AccelerationFields == {"au", "av", "aw"}

\* C5: a loop call for a pair with VIJ.XIJ >= 0 computes piij = 0 (when it
\* gets that far: a zero density raises before) and changes no d_au, d_av,
\* d_aw, whatever alpha, beta, eta, the sound speeds, masses, HIJ, R2IJ,
\* RHOIJ1 and DWIJ are; so the accumulators change only when VIJ.XIJ < 0.
C5_ViscositySwitch ==
    (/\ log # <<>>
     /\ Last(log).stage = "loop"
     /\ ~RLt(Dot(Last(log).g.VIJ, Last(log).g.XIJ), Zero)) =>
        LET c == Last(log)
            e == eqs[c.eq]
            r == MonaghanArtificialViscosity_piij(prev, e, c.d_idx, c.s_idx, c.g)
        IN  /\ r.raised = c.raised
            /\ ~r.raised => r.piij = Zero
            /\ \A a \in ArrayNames, f \in AccelerationFields :
                   pa[a][f] = prev[a][f]

\* A completed loop call with VIJ.XIJ exactly 0 for non-zero VIJ and XIJ,
\* alpha # 0 and a non-zero accumulator.
C5_Witness ==
    /\ log # <<>>
    /\ Last(log).stage = "loop"
    /\ ~Last(log).raised
    /\ Dot(Last(log).g.VIJ, Last(log).g.XIJ) = Zero
    /\ Last(log).g.VIJ # VecI(0, 0, 0)
    /\ eqs[1].alpha # Zero
    /\ eqs[1].eta # Zero
    /\ Get(pa, "fluid", "au", Last(log).d_idx) = Q(7)

(***************************************************************************)
(* XSPHCorrection                                                          *)
(***************************************************************************)
XSPHCorrection(dest, source, eps, symmetric) ==
    Equation("XSPHCorrection", dest, source, symmetric) @@ [eps |-> eps]

XSPHCorrection_initialize_twice_ax(p, e, d_idx) ==
    LET p1 == Set(p, e.dest, "ax", d_idx, Zero)
        p2 == Set(p1, e.dest, "ay", d_idx, Zero)
    IN  Set(p2, e.dest, "ax", d_idx, Zero)

XSPHCorrection_initialize(p, e, d_idx) ==
    LET p1 == Set(p, e.dest, "ax", d_idx, Zero)
        p2 == Set(p1, e.dest, "ay", d_idx, Zero)
    IN  Set(p2, e.dest, "az", d_idx, Zero)

XSPHCorrection_loop_inverted_factor(p, e, s_idx, d_idx, WIJ, RHOIJ1, VIJ) ==
    LET tmp == RMul(RMul(RMul(RNeg(e.eps), Get(p, e.source, "m", s_idx)),
                         WIJ), RHOIJ1)
        v1 == RMul(tmp, VIJ[0])
        v2 == RMul(tmp, VIJ[1])
        v3 == RMul(tmp, VIJ[2])
        p1 == Inc(p, e.dest, "ax", d_idx, v1)
        p2 == Inc(p1, e.dest, "ay", d_idx, v2)
        p3 == Inc(p2, e.dest, "az", d_idx, v3)
    IN  IF ~e.symmetric THEN NoRaise(p3)
        ELSE IF Get(p3, e.dest, "m", d_idx) = Zero THEN Raise(p3)
        ELSE
        LET factor == RDiv(RNeg(Get(p3, e.source, "m", s_idx)),
                           Get(p3, e.dest, "m", d_idx))
            p4 == Inc(p3, e.source, "ax", s_idx, RMul(v1, factor))
            p5 == Inc(p4, e.source, "ay", s_idx, RMul(v2, factor))
        IN  NoRaise(Inc(p5, e.source, "az", s_idx, RMul(v3, factor)))

XSPHCorrection_loop(p, e, s_idx, d_idx, WIJ, RHOIJ1, VIJ) ==
    LET tmp == RMul(RMul(RMul(RNeg(e.eps), Get(p, e.source, "m", s_idx)),
                         WIJ), RHOIJ1)
        v1 == RMul(tmp, VIJ[0])
        v2 == RMul(tmp, VIJ[1])
        v3 == RMul(tmp, VIJ[2])
        p1 == Inc(p, e.dest, "ax", d_idx, v1)
        p2 == Inc(p1, e.dest, "ay", d_idx, v2)
        p3 == Inc(p2, e.dest, "az", d_idx, v3)
    IN  IF ~e.symmetric THEN NoRaise(p3)
        ELSE IF Get(p3, e.source, "m", s_idx) = Zero THEN Raise(p3)
        ELSE
        LET factor == RDiv(RNeg(Get(p3, e.dest, "m", d_idx)),
                           Get(p3, e.source, "m", s_idx))
            p4 == Inc(p3, e.source, "ax", s_idx, RMul(v1, factor))
            p5 == Inc(p4, e.source, "ay", s_idx, RMul(v2, factor))
        IN  NoRaise(Inc(p5, e.source, "az", s_idx, RMul(v3, factor)))

XSPHCorrection_post_loop(p, e, d_idx) ==
    LET p1 == Inc(p, e.dest, "ax", d_idx, Get(p, e.dest, "u", d_idx))
        p2 == Inc(p1, e.dest, "ay", d_idx, Get(p1, e.dest, "v", d_idx))
    IN  Inc(p2, e.dest, "az", d_idx, Get(p2, e.dest, "w", d_idx))

\* Pair geometry the collaborators may supply to XSPHCorrection.
GeometryXSPH ==
    { [WIJ |-> Half, RHOIJ1 |-> Q(1), VIJ |-> VecI(1, -2, 3)],
      [WIJ |-> Q(2), RHOIJ1 |-> Half, VIJ |-> VecI(0, 1, -1)],
      [WIJ |-> Q(3), RHOIJ1 |-> <<1, 3>>, VIJ |-> VecI(2, 0, 5)] }

InitXSPH ==
    /\ \E src \in ArrayNames, sym \in BOOLEAN, eps \in {Half} :
          eqs = <<XSPHCorrection("fluid", src, eps, sym)>>
    /\ \E m \in {Ramp(1, 2), Ramp(0, 5)} :
          pa = [x \in ArrayNames |->
                   [m |-> m, u |-> Ramp(1, 1), v |-> Const(Q(-2)),
                    w |-> Ramp(0, 3),
                    ax |-> Const(Q(7)), ay |-> Ramp(1, 3), az |-> Const(Q(-4))]]
    /\ prev = pa
    /\ log = <<>>
    /\ engine = FreeEngine

XSPH_Initialize ==
    /\ Len(log) < engine.budget
    /\ \E i \in Idx :
          Step([eq |-> 1, stage |-> "initialize", d_idx |-> i],
               XSPHCorrection_initialize(pa, eqs[1], i))
    /\ UNCHANGED engine

XSPH_Loop ==
    /\ Len(log) < engine.budget
    /\ \E i \in Idx, j \in Idx, g \in GeometryXSPH :
          LET r == XSPHCorrection_loop(pa, eqs[1], j, i, g.WIJ, g.RHOIJ1, g.VIJ)
          IN  Step([eq |-> 1, stage |-> "loop", d_idx |-> i, s_idx |-> j,
                    g |-> g, raised |-> r.raised], r.pa)
    /\ UNCHANGED engine

XSPH_PostLoop ==
    /\ Len(log) < engine.budget
    /\ \E i \in Idx :
          Step([eq |-> 1, stage |-> "post_loop", d_idx |-> i],
               XSPHCorrection_post_loop(pa, eqs[1], i))
    /\ UNCHANGED engine

NextXSPH == XSPH_Initialize \/ XSPH_Loop \/ XSPH_PostLoop

SpecXSPH == InitXSPH /\ [][NextXSPH]_vars

\* The arrays p with d_ax[i], d_ay[i], d_az[i] of array a set to 0.
ZeroedAt(p, a, i) ==
    [p EXCEPT ![a]["ax"][i] = Zero, ![a]["ay"][i] = Zero, ![a]["az"][i] = Zero]

\* C8: every initialize(i) call, a first one or one that follows another,
\* leaves d_ax[i], d_ay[i], d_az[i] at 0 and every other slot of every field
\* as it was: the arrays after the call are those before it with the three
\* slots zeroed, so nothing else is read or written.
C8_InitializeResets ==
    (log # <<>> /\ Last(log).stage = "initialize") =>
        pa = ZeroedAt(prev, eqs[1].dest, Last(log).d_idx)

\* Two initialize calls in succession on the same particle.
C8_Witness ==
    /\ Len(log) = 2
    /\ log[1].stage = "initialize"
    /\ log[2].stage = "initialize"
    /\ log[1].d_idx = log[2].d_idx
    /\ \E k \in Idx : Get(pa, "fluid", "ax", k) # Zero
    /\ Get(pa, "fluid", "az", log[2].d_idx) = Zero

AxisField == (0 :> "ax") @@ (1 :> "ay") @@ (2 :> "az")

\* What a call added to slot j of field f of array a.
Added(p, p0, a, f, j) == RSub(Get(p, a, f, j), Get(p0, a, f, j))

\* The case of C10: a completed loop call on two distinct particles with
\* s_m[j] # 0.
C10_Case ==
    /\ log # <<>>
    /\ Last(log).stage = "loop"
    /\ ~Last(log).raised
    /\ Distinct(eqs[1], Last(log).d_idx, Last(log).s_idx)
    /\ Get(prev, eqs[1].source, "m", Last(log).s_idx) # Zero

Pairs == {pr \in SUBSET Idx : Cardinality(pr) = 2}

\* VIJ = v_dest - v_source.
PairVIJ(p, a, i, j) ==
    Vec(RSub(Get(p, a, "u", i), Get(p, a, "u", j)),
        RSub(Get(p, a, "v", i), Get(p, a, "v", j)),
        RSub(Get(p, a, "w", i), Get(p, a, "w", j)))

\* A kernel gradient along the line of the pair: DWIJ(j, i) = -DWIJ(i, j).
PairDWIJ(p, a, i, j) ==
    Vec(RSub(Get(p, a, "x", j), Get(p, a, "x", i)),
        RSub(Get(p, a, "y", j), Get(p, a, "y", i)),
        RSub(Get(p, a, "z", j), Get(p, a, "z", i)))

\* The neighbours the engine visits from destination i.
Visits(e, owner, i) ==
    IF e.symmetric THEN {j \in Idx : j # i /\ owner[{i, j}] = i}
    ELSE Idx \ {i}

InitCEP ==
    /\ \E sym \in BOOLEAN : eqs = <<ContinuityEquation("fluid", "fluid", sym)>>
    /\ \E m \in {Const(Q(1)), Ramp(1, 1)}, u \in {Ramp(1, -1), Ramp(0, 2)},
          v \in {Const(Zero), Ramp(1, 1)} :
          pa = [a \in ArrayNames |->
                   [m |-> m, arho |-> Const(Q(9)), u |-> u, v |-> v,
                    w |-> Const(Zero), x |-> Ramp(0, 1), y |-> Ramp(2, -1),
                    z |-> Const(Zero)]]
    /\ prev = pa
    /\ log = <<>>
    /\ \E owner \in [Pairs -> Idx] :
          /\ \A pr \in Pairs : owner[pr] \in pr
          /\ engine = [mode |-> "pass", pc |-> "initialize", d_idx |-> 0,
                       todo |-> {}, owner |-> owner]

CEP_Initialize ==
    /\ engine.pc = "initialize"
    /\ Step([eq |-> 1, stage |-> "initialize", d_idx |-> engine.d_idx],
            ContinuityEquation_initialize(pa, eqs[1], engine.d_idx))
    /\ engine' = [engine EXCEPT
                     !.pc = "loop",
                     !.todo = Visits(eqs[1], engine.owner, engine.d_idx)]

CEP_Loop ==
    /\ engine.pc = "loop"
    /\ \E j \in engine.todo :
          LET i == engine.d_idx
              D == PairDWIJ(pa, "fluid", i, j)
              V == PairVIJ(pa, "fluid", i, j)
          IN  /\ Step([eq |-> 1, stage |-> "loop", d_idx |-> i, s_idx |-> j,
                       DWIJ |-> D, VIJ |-> V],
                      ContinuityEquation_loop(pa, eqs[1], i, j, D, V))
              /\ engine' = [engine EXCEPT !.todo = engine.todo \ {j}]

CEP_NextParticle ==
    /\ engine.pc = "loop"
    /\ engine.todo = {}
    /\ engine' = [engine EXCEPT
                     !.pc = IF engine.d_idx + 1 \in Idx THEN "initialize"
                            ELSE "done",
                     !.d_idx = IF engine.d_idx + 1 \in Idx
                               THEN engine.d_idx + 1 ELSE engine.d_idx]
    /\ UNCHANGED <<eqs, pa, prev, log>>

NextCEP == CEP_Initialize \/ CEP_Loop \/ CEP_NextParticle

SpecCEP == InitCEP /\ [][NextCEP]_vars

\* The sum over the particles b of bs of m_b * (VIJ(k, b) . DWIJ(k, b)).
RECURSIVE DensityRate(_, _, _)
DensityRate(p, k, bs) ==
    IF bs = {} THEN Zero
    ELSE LET b == CHOOSE x \in bs : TRUE
         IN  RAdd(DensityRate(p, k, bs \ {b}),
                  RMul(Get(p, "fluid", "m", b),
                       Dot(PairVIJ(p, "fluid", k, b), PairDWIJ(p, "fluid", k, b))))

\* A finished non-symmetric pass leaves the density rate in every arho[k].
FullPassGivesDensityRate ==
    (engine.pc = "done" /\ ~eqs[1].symmetric) =>
        \A k \in Idx :
            Get(pa, "fluid", "arho", k) = DensityRate(pa, k, Idx \ {k})

\* C3: a finished symmetric pass over one array, every unordered pair
\* visited once, leaves in every arho[k] what the non-symmetric pass over
\* every ordered pair leaves: the sum over the neighbours b of
\* m_b * (VIJ(k, b) . DWIJ(k, b)).
C3_SymmetricPassEqualsFullPass ==
    (engine.pc = "done" /\ eqs[1].symmetric) =>
        \A k \in Idx :
            Get(pa, "fluid", "arho", k) = DensityRate(pa, k, Idx \ {k})

\* C3 for the passes in which every pair is visited from its later particle,
\* so that no initialize call follows a reaction term on the same particle.
C3_SymmetricPassLaterOwner ==
    (/\ engine.pc = "done"
     /\ eqs[1].symmetric
     /\ \A pr \in Pairs : \A k \in pr : k <= engine.owner[pr]) =>
        \A k \in Idx :
            Get(pa, "fluid", "arho", k) = DensityRate(pa, k, Idx \ {k})

(***************************************************************************)
(* BodyForce and MonaghanArtificialViscosity evaluated in one pass for one *)
(* destination particle: the engine calls each equation's initialize once  *)
(* and then its loop once per neighbour of engine.nbrs, the two            *)
(* equations' calls interleaved in any order.                              *)
(***************************************************************************)
\* The geometry of an approaching and of a separating pair.
GeometryCMP ==
    { g \in GeometryMAV : g.R2IJ # Zero /\ Dot(g.VIJ, g.XIJ) # Zero }

RECURSIVE SeqsOf(_, _)
SeqsOf(S, n) ==
    IF n = 0 THEN {<<>>}
    ELSE {Append(q, x) : q \in SeqsOf(S, n - 1), x \in S}

InitCMP ==
    /\ \E f \in {h \in Forces : h[1] # Zero} :
          eqs = <<BodyForce("fluid", "fluid", f[1], f[2], f[3], FALSE),
                  MonaghanArtificialViscosity("fluid", "fluid", Q(1), Q(1),
                                              <<1, 10>>, FALSE)>>
    /\ pa = [x \in ArrayNames |->
                [m |-> Ramp(1, 2), rho |-> Ramp(1, 1), cs |-> Ramp(2, 1),
                 au |-> Const(Q(7)), av |-> Ramp(0, 3), aw |-> Const(Zero)]]
    /\ prev = pa
    /\ log = <<>>
    /\ \E i \in Idx,
          nbrs \in SeqsOf([s_idx : Idx, g : GeometryCMP], NNbr) :
          engine = [mode |-> "compose", d_idx |-> i, nbrs |-> nbrs,
                    begun |-> <<FALSE, FALSE>>, done |-> <<0, 0>>]

Begin(n) == [engine EXCEPT !.begun[n] = TRUE]
Visit(n) == [engine EXCEPT !.done[n] = engine.done[n] + 1]

CMP_BF_Initialize ==
    /\ ~engine.begun[1]
    /\ Step([eq |-> 1, stage |-> "initialize", d_idx |-> engine.d_idx],
            BodyForce_initialize(pa, eqs[1], engine.d_idx))
    /\ engine' = Begin(1)

CMP_BF_Loop ==
    /\ engine.begun[1]
    /\ engine.done[1] < Len(engine.nbrs)
    /\ Step([eq |-> 1, stage |-> "loop", d_idx |-> engine.d_idx,
             s_idx |-> engine.nbrs[engine.done[1] + 1].s_idx],
            BodyForce_loop(pa, eqs[1], engine.d_idx))
    /\ engine' = Visit(1)

CMP_MAV_Initialize ==
    /\ ~engine.begun[2]
    /\ Step([eq |-> 2, stage |-> "initialize", d_idx |-> engine.d_idx],
            MonaghanArtificialViscosity_initialize(pa, eqs[2], engine.d_idx))
    /\ engine' = Begin(2)

CMP_MAV_Loop ==
    /\ engine.begun[2]
    /\ engine.done[2] < Len(engine.nbrs)
    /\ LET n == engine.nbrs[engine.done[2] + 1]
           r == MonaghanArtificialViscosity_loop(pa, eqs[2], engine.d_idx,
                                                 n.s_idx, n.g)
       IN  Step([eq |-> 2, stage |-> "loop", d_idx |-> engine.d_idx,
                 s_idx |-> n.s_idx, g |-> n.g, raised |-> r.raised], r.pa)
    /\ engine' = Visit(2)

NextCMP ==
    CMP_BF_Initialize \/ CMP_BF_Loop \/ CMP_MAV_Initialize \/ CMP_MAV_Loop

SpecCMP == InitCMP /\ [][NextCMP]_vars

PassDone ==
    /\ engine.done[1] = Len(engine.nbrs)
    /\ engine.done[2] = Len(engine.nbrs)

\* What BodyForce alone accumulates: initialize, then n loop calls.
RECURSIVE BodyForceAlone(_, _)
BodyForceAlone(p, n) ==
    IF n = 0 THEN BodyForce_initialize(p, eqs[1], engine.d_idx)
    ELSE BodyForce_loop(BodyForceAlone(p, n - 1), eqs[1], engine.d_idx)

\* What MonaghanArtificialViscosity alone accumulates over the first n
\* neighbours.
RECURSIVE ViscosityAlone(_, _)
ViscosityAlone(p, n) ==
    IF n = 0
    THEN MonaghanArtificialViscosity_initialize(p, eqs[2], engine.d_idx)
    ELSE MonaghanArtificialViscosity_loop(ViscosityAlone(p, n - 1), eqs[2],
             engine.d_idx, engine.nbrs[n].s_idx, engine.nbrs[n].g).pa

\* The accumulators hold the sum of what each equation alone accumulates.
SumOfBoth ==
    LET i == engine.d_idx
        N == Len(engine.nbrs)
        b == Acc3(BodyForceAlone(pa, N), "fluid", i)
        v == Acc3(ViscosityAlone(pa, N), "fluid", i)
    IN  Acc3(pa, "fluid", i) = <<RAdd(b[1], v[1]), RAdd(b[2], v[2]),
                                 RAdd(b[3], v[3])>>

\* Every initialize call of the log comes before every loop call.
InitializeBeforeAnyLoop ==
    \A a \in 1 .. Len(log), b \in 1 .. Len(log) :
        (log[a].stage = "initialize" /\ log[b].stage = "loop") => a < b

\* C4 as claimed: after any interleaving in which each equation's
\* initialize(i) comes before that equation's own loop calls, d_au[i],
\* d_av[i], d_aw[i] are the sum of what each equation alone accumulates.
C4_AnyInterleavingSums == PassDone => SumOfBoth

\* C4, amended: the same when both equations' initialize(i) calls come
\* before every loop call of either equation.
C4_InitializeFirstSums == (PassDone /\ InitializeBeforeAnyLoop) => SumOfBoth

\* A finished pass with both initialize calls first, loop calls of the two
\* equations alternating, and a non-zero viscosity term.
C4_Witness ==
    /\ PassDone
    /\ InitializeBeforeAnyLoop
    /\ log[3].eq # log[4].eq
    /\ log[4].eq # log[5].eq
    /\ eqs[1].fx # Zero
    /\ Get(pa, "fluid", "au", engine.d_idx)
           # Get(BodyForceAlone(pa, Len(engine.nbrs)), "fluid", "au",
                 engine.d_idx)

====
